---- MODULE Spec2Model ----
(***************************************************************************)
(* Export orchestration of fusion-tables-drive-export.                     *)
(*                                                                         *)
(* Spec      : one call of the export function (do-export, src/unnamed/    *)
(*             part_002) with its table workers (saveTable), the p-limit   *)
(*             queue, the progress store, the export log, the index sheet  *)
(*             and the Drive folder.                                       *)
(* FairSpec  : Spec with weak fairness: every external call that is in     *)
(*             flight eventually returns or fails.                         *)
(* SpecRetry : one retry-wrapped call (promiseRetry around a worker) under *)
(*             a policy and a script of attempt outcomes.                  *)
(*                                                                         *)
(* An action is one turn of the event loop: the completion of an external  *)
(* call together with the synchronous continuation that runs after the     *)
(* await it resolves, up to the next await.                                *)
(***************************************************************************)
EXTENDS Integers, Sequences, FiniteSets, TLC

\* ------------------------------------------------------------------ bounds

\* Longest table list handed to the export function.
MaxTables == 2

\* Largest number of styles a table has.
MaxStyles == 2

\* RETRY_OPTIONS.retries of the running export (config/config).
Retries == 1

\* Largest RETRY_OPTIONS.retries tried in SpecRetry.
MaxRetries == 3

\* Calls of getArchiveIndexSheet made for one archive folder.
MaxCalls == 2

\* Requests of the polling client that fail before requests stop failing.
MaxFailures == 2

\* --------------------------------------------------------------- constants

\* Faulty variant of Concurrency: two workers may run at once.
ConcurrencyOfTwo == 1 + 1

\* pLimit(1)
Concurrency == 1

\* Buffer.byteLength(csv.data) / 1024 / 1024
MB == 1048576

\* isLarge = fileSize > 20
LargeLimit == 20

\* ------------------------------------------------------------------ values

None == "none"

NoFile == [id |-> 0, mimeType |-> None]

\* The id getDriveUploadFolder answers with.
FolderIds == {"folderA"}

SheetIds == {"sheet1"}

MimeTypes == {"text/csv", "application/vnd.google-apps.spreadsheet"}

\* Byte sizes of a table's csv: empty, 9 MB, 16 MB, exactly 20 MB, one byte
\* more, 25 MB.
CsvSizes == {0, 9 * MB, 16 * MB, 20 * MB, 20 * MB + 1, 25 * MB}

\* The style lists a table can have: <<>>, <<1>>, <<1, 2>>, ...
StyleLists == {[i \in 1..k |-> i] : k \in 0..MaxStyles}

\* What the services answer for a table when they answer: the csv's size and
\* geometry flag (getCsv), its styles (getFusiontableStyles) and the type of
\* the uploaded file (uploadToDrive).
TableKinds ==
    [bytes : CsvSizes, hasGeometryData : BOOLEAN, styles : StyleLists,
     mimeType : MimeTypes]

\* The two kinds of table that longer table lists are made of, in turn.
LargeStyledKind ==
    [bytes |-> 25 * MB, hasGeometryData |-> TRUE, styles |-> <<1, 2>>,
     mimeType |-> "application/vnd.google-apps.spreadsheet"]

SmallPlainKind ==
    [bytes |-> 20 * MB, hasGeometryData |-> FALSE, styles |-> <<>>,
     mimeType |-> "text/csv"]

\* The table lists explored: every single table, and for every length up to
\* MaxTables (the empty list included) one list of tables of the two kinds.
TableLists ==
    {<<k>> : k \in TableKinds}
        \cup {[i \in 1..n |-> IF i % 2 = 1 THEN LargeStyledKind ELSE SmallPlainKind] :
                n \in 0..MaxTables}

SetupErrors ==
    {"ArchiveFolderError", "UploadFolderError", "IndexSheetError", "ExportRowError"}

TableErrors ==
    {"FetchError", "UploadError", "StylesError", "LogFileError", "PermissionError"}

\* ------------------------------------------------------- size classification

RECURSIVE FloorLog2(_)
\* Math.floor(Math.log(x) / Math.log(2)) for an integer x >= 1
FloorLog2(x) == IF x <= 1 THEN 0 ELSE 1 + FloorLog2(x \div 2)

RECURSIVE Pow2(_)
Pow2(k) == IF k = 0 THEN 1 ELSE 2 * Pow2(k - 1)

\* roundedFileSize, kept in bytes (the code's value times 2^20, an exact
\* scaling): the largest power of two not above the size, 0 for an empty csv.
RoundedFileSize(bytes) == IF bytes = 0 THEN 0 ELSE Pow2(FloorLog2(bytes))

\* Faulty variant of IsLarge: a csv of exactly 20 MB counts as large.
IsLargeFrom20(bytes) == bytes >= LargeLimit * MB

\* isLarge = fileSize > 20, with fileSize = bytes / 1024 / 1024
IsLarge(bytes) == bytes > LargeLimit * MB

\* ------------------------------------------------------------ retry wrapper

\* A retry-wrapped call: promiseRetry(retry => worker().catch(retry), policy).
\* attempts: calls of the worker so far; delays: inter-attempt timeouts armed;
\* state: "calling" | "waiting" | "resolved" | "rejected".
RetryStart ==
    [attempts |-> 1, delays |-> 0, state |-> "calling", result |-> None]

\* The worker's promise fulfilled: promiseRetry resolves with its value.
RetryFulfil(r, value) == [r EXCEPT !.state = "resolved", !.result = value]

\* Faulty variant of RetryReject: the last of the policy's attempts is never made.
RetryRejectOneFewer(r, retries, error) ==
    IF r.delays + 1 < retries
    THEN [r EXCEPT !.state = "waiting"]
    ELSE [r EXCEPT !.state = "rejected", !.result = error]

\* The worker's promise rejected: .catch(retry) asks for a retry of every
\* error; operation.retry arms the next timeout while one of the `retries`
\* timeouts is left, and otherwise promiseRetry rejects with that error.
RetryReject(r, retries, error) ==
    IF r.delays < retries
    THEN [r EXCEPT !.state = "waiting"]
    ELSE [r EXCEPT !.state = "rejected", !.result = error]

\* The timeout fired: the worker is called again.
RetryTimeout(r) ==
    [r EXCEPT !.state = "calling", !.attempts = @ + 1, !.delays = @ + 1]

\* ---------------------------------------------------------- index-sheet rows

NoIndex == -1

NoLink == [file |-> 0, style |-> {}, large |-> FALSE]

\* getStyleHash(style): an opaque digest of the style
StyleHash(style) == [hash |-> style]

\* Faulty variant of VisualizerLink: the style parameter is left out of the link.
VisualizerLinkWithoutStyle(file, styleParam, isLarge) ==
    [file |-> file.id, style |-> {}, large |-> isLarge]

\* `${VISUALIZER_BASE_URI}#file=${driveFile.id}` + `&style=..` + `&large=true`
VisualizerLink(file, styleParam, isLarge) ==
    [file |-> file.id, style |-> styleParam, large |-> isLarge]

FileType(file) == IF file.mimeType = "text/csv" THEN "CSV" ELSE "Spreadsheet"

\* Faulty variant of createRow: every row is filled in as a first row.
createRowAlwaysFirst(table, file, visualizerLink, index) ==
    LET visualizationId == IF index # NoIndex THEN <<index + 1>> ELSE <<>>
    IN  [name   |-> file.id,
         source |-> <<table>>,
         dest   |-> <<file.id>>,
         type   |-> FileType(file),
         vis    |-> IF visualizerLink # NoLink
                    THEN [kind  |-> "hyperlink",
                          text  |-> "Visualization",
                          link  |-> visualizerLink,
                          label |-> visualizationId]
                    ELSE [kind  |-> "no-geometry-text",
                          text  |-> "Cannot visualize - no geometry found.",
                          link  |-> NoLink,
                          label |-> <<>>]]

\* createRow(visualizerLink?, index?): the six cells of one row (the export
\* date cell is left out). A blank cell is <<>> or "". The visualization cell
\* is the formula =HYPERLINK(link, "Visualization <label>") or a string value.
createRow(table, file, visualizerLink, index) ==
    LET isFirstRow == index = 0 \/ index = NoIndex
        visualizationId == IF index # NoIndex THEN <<index + 1>> ELSE <<>>
    IN  [name   |-> file.id,
         source |-> IF isFirstRow THEN <<table>> ELSE <<>>,
         dest   |-> IF isFirstRow THEN <<file.id>> ELSE <<>>,
         type   |-> IF isFirstRow THEN FileType(file) ELSE "",
         vis    |-> IF visualizerLink # NoLink
                    THEN [kind  |-> "hyperlink",
                          text  |-> "Visualization",
                          link  |-> visualizerLink,
                          label |-> visualizationId]
                    ELSE [kind  |-> "no-geometry-text",
                          text  |-> "Cannot visualize - no geometry found.",
                          link  |-> NoLink,
                          label |-> <<>>]]

\* Faulty variant of Rows: the check of hasGeometryData is missing, so a table
\* without geometry gets the rows of its styles.
RowsIgnoringGeometry(table, file, styles, hasGeometryData, isLarge) ==
    IF Len(styles) > 0
    THEN [i \in 1..Len(styles) |->
            createRow(table, file,
                      VisualizerLink(file, {StyleHash(styles[i])}, isLarge),
                      IF Len(styles) > 1 THEN i - 1 ELSE NoIndex)]
    ELSE <<createRow(table, file, VisualizerLink(file, {}, isLarge), NoIndex)>>

\* The rows appended for one exported table.
Rows(table, file, styles, hasGeometryData, isLarge) ==
    IF ~hasGeometryData
    THEN <<createRow(table, file, NoLink, NoIndex)>>
    ELSE IF Len(styles) > 0
    THEN [i \in 1..Len(styles) |->
            createRow(table, file,
                      VisualizerLink(file, {StyleHash(styles[i])}, isLarge),
                      IF Len(styles) > 1 THEN i - 1 ELSE NoIndex)]
    ELSE <<createRow(table, file, VisualizerLink(file, {}, isLarge), NoIndex)>>

\* One appended line of the index sheet.
TableLine(table, row) == [kind |-> "table", table |-> table, folder |-> None, row |-> row]

\* insertExportRowInIndexSheet: the row that links to the export's folder.
ExportLine(folder) ==
    [kind |-> "export", table |-> 0, folder |-> folder,
     row |-> createRow(0, NoFile, NoLink, NoIndex)]

\* ------------------------------------------------------------- export: state

VARIABLES
    tables,        \* options.tables; the table at index t - 1 has table.id = t
    pc,            \* where the export function is suspended
    folderCall,    \* getDriveUploadFolder: [state, result]
    sheetCall,     \* getArchiveIndexSheet:  [state, result]
    folderId,      \* let folderId
    archiveSheet,  \* let archiveSheet
    outcome,       \* how the export function's promise settled: [state, value]
    queue,         \* p-limit: the queued workers, in dispatch order
    activeCount,   \* p-limit: the workers running
    w,             \* per table: the locals and pending calls of its saveTable
    progress,      \* the progress store, per table id
    log,           \* the export log, in emission order
    sheet,         \* the lines appended to the index sheet
    files,         \* Drive: the uploaded files, [table, folder]
    permitted,     \* Drive: the files whose permissions were replicated
    retry,         \* SpecRetry: the retry-wrapped call under study
    drive,         \* SpecSheet: the index files of the archive folder, by id
    calls,         \* SpecSheet: the calls of getArchiveIndexSheet
    feed,          \* SpecClient: what the server holds for each table of the export
    poll           \* SpecClient: the polling client of the export's page

vars ==
    <<tables, pc, folderCall, sheetCall, folderId, archiveSheet, outcome, queue,
      activeCount, w, progress, log, sheet, files, permitted, retry, drive,
      calls, feed, poll>>

clientVars == <<feed, poll>>

\* The state of the other specifications, which an export leaves alone.
otherVars == <<retry, drive, calls, feed, poll>>

Tables == 1..Len(tables)

IdleCall == [state |-> "idle", result |-> None]

IdleRetry == [attempts |-> 0, delays |-> 0, state |-> "idle", result |-> None]

\* saveTable's locals as declared (lines 107-113) and its calls, none made yet.
InitWorker ==
    [pc |-> "pending",
     folderId |-> None,
     archiveSheet |-> None,
     isLarge |-> FALSE,
     hasGeometryData |-> FALSE,
     roundedFileSize |-> 0,
     driveFile |-> NoFile,
     styles |-> <<>>,
     upload |-> [state |-> "idle", result |-> NoFile],
     stylesCall |-> [state |-> "idle", result |-> <<>>],
     logCall |-> IdleRetry,
     permCall |-> "idle",
     writeCall |-> "idle"]

\* The entry the caller of the export function puts in the progress store for
\* each table before the export starts.
LoadingResult ==
    [status |-> "loading", error |-> None, driveFile |-> NoFile, styles |-> <<>>,
     isLarge |-> FALSE, fileSize |-> 0, hasGeometryData |-> FALSE]

LogEvent(ev, tableId, status, size) ==
    [ev |-> ev, tableId |-> tableId, status |-> status, size |-> size]

\* No retry-wrapped call is under study.
RetryOff ==
    [call |-> None, retries |-> 0, run |-> IdleRetry, history |-> <<>>]

\* No call of getArchiveIndexSheet is under study.
ResolverOff ==
    /\ drive = <<>>
    /\ calls = <<>>

\* No page polls for the export's progress.
ClientOff ==
    /\ feed = <<>>
    /\ poll = [pc |-> "off"]

Init ==
    /\ retry = RetryOff
    /\ ResolverOff
    /\ ClientOff
    /\ tables \in TableLists
    /\ pc = "start"
    /\ folderCall = IdleCall
    /\ sheetCall = IdleCall
    /\ folderId = None
    /\ archiveSheet = None
    /\ outcome = [state |-> "pending", value |-> None]
    /\ queue = <<>>
    /\ activeCount = 0
    /\ w = [t \in Tables |-> InitWorker]
    /\ progress = [t \in Tables |-> LoadingResult]
    /\ log = <<>>
    /\ sheet = <<>>
    /\ files = {}
    /\ permitted = {}

\* ------------------------------------------------------------- export: setup

setupVars == <<tables, pc, folderCall, sheetCall, folderId, archiveSheet, outcome>>

\* logExportStart(exportId, tables.length), then getArchiveFolder is called.
ExportStart ==
    /\ pc = "start"
    /\ log' = Append(log, LogEvent("export-started", 0, None, Len(tables)))
    /\ pc' = "getArchiveFolder"
    /\ UNCHANGED otherVars
    /\ UNCHANGED <<tables, folderCall, sheetCall, folderId, archiveSheet, outcome,
                   queue, activeCount, w, progress, sheet, files, permitted>>

\* Faulty variant of Reject: the error is swallowed where it is rethrown, so the
\* dispatch below the try block still runs.
RejectThenDispatch(error) ==
    /\ pc' = "rejected"
    /\ outcome' = [state |-> "rejected", value |-> error]
    /\ queue' = [i \in 1..Len(tables) |-> i]

\* catch (error) { throw error; }: the export function rejects with the error
\* and never reaches the dispatch.
Reject(error) ==
    /\ pc' = "rejected"
    /\ outcome' = [state |-> "rejected", value |-> error]
    /\ queue' = queue

\* Faulty variant of Dispatch: the index sheet's id is returned in place of the
\* upload folder's.
DispatchReturnsSheet(folder) ==
    /\ pc' = "returned"
    /\ outcome' = [state |-> "resolved", value |-> archiveSheet]
    /\ queue' = [i \in 1..Len(tables) |-> i]

\* tables.map((table, index) => limit(() => saveTable(..))); return folderId
Dispatch(folder) ==
    /\ pc' = "returned"
    /\ outcome' = [state |-> "resolved", value |-> folder]
    /\ queue' = [i \in 1..Len(tables) |-> i]

\* getArchiveFolder returned: on success both setup calls are made at once.
ArchiveFolderReturn ==
    /\ pc = "getArchiveFolder"
    /\ \/ /\ pc' = "setup"
          /\ folderCall' = [state |-> "running", result |-> None]
          /\ sheetCall' = [state |-> "running", result |-> None]
          /\ UNCHANGED <<outcome, queue>>
       \/ /\ Reject("ArchiveFolderError")
          /\ UNCHANGED <<folderCall, sheetCall>>
    /\ UNCHANGED otherVars
    /\ UNCHANGED <<tables, folderId, archiveSheet, activeCount, w, progress, log,
                   sheet, files, permitted>>

\* Faulty variant of SetupDone: the workers are dispatched without the export
\* row being appended first.
SetupDoneThenDispatch(folder, sheetHandle) ==
    /\ folderId' = folder
    /\ archiveSheet' = sheetHandle
    /\ Dispatch(folder)

\* Promise.all of the two setup calls fulfilled: the destructuring assignment,
\* then insertExportRowInIndexSheet is called.
SetupDone(folder, sheetHandle) ==
    /\ folderId' = folder
    /\ archiveSheet' = sheetHandle
    /\ pc' = "insertExportRow"
    /\ UNCHANGED <<outcome, queue>>

\* getDriveUploadFolder returned.
UploadFolderReturn ==
    /\ folderCall.state = "running"
    /\ \/ \E f \in FolderIds :
            /\ folderCall' = [state |-> "ok", result |-> f]
            /\ IF pc = "setup" /\ sheetCall.state = "ok"
               THEN SetupDone(f, sheetCall.result)
               ELSE UNCHANGED <<pc, folderId, archiveSheet, outcome, queue>>
       \/ /\ folderCall' = [state |-> "failed", result |-> None]
          /\ IF pc = "setup"
             THEN Reject("UploadFolderError") /\ UNCHANGED <<folderId, archiveSheet>>
             ELSE UNCHANGED <<pc, folderId, archiveSheet, outcome, queue>>
    /\ UNCHANGED otherVars
    /\ UNCHANGED <<tables, sheetCall, activeCount, w, progress, log, sheet, files,
                   permitted>>

\* getArchiveIndexSheet returned.
IndexSheetReturn ==
    /\ sheetCall.state = "running"
    /\ \/ \E s \in SheetIds :
            /\ sheetCall' = [state |-> "ok", result |-> s]
            /\ IF pc = "setup" /\ folderCall.state = "ok"
               THEN SetupDone(folderCall.result, s)
               ELSE UNCHANGED <<pc, folderId, archiveSheet, outcome, queue>>
       \/ /\ sheetCall' = [state |-> "failed", result |-> None]
          /\ IF pc = "setup"
             THEN Reject("IndexSheetError") /\ UNCHANGED <<folderId, archiveSheet>>
             ELSE UNCHANGED <<pc, folderId, archiveSheet, outcome, queue>>
    /\ UNCHANGED otherVars
    /\ UNCHANGED <<tables, folderCall, activeCount, w, progress, log, sheet, files,
                   permitted>>

\* insertExportRowInIndexSheet returned: on success the workers are queued and
\* the export function returns the folder id.
ExportRowReturn ==
    /\ pc = "insertExportRow"
    /\ \/ /\ sheet' = Append(sheet, ExportLine(folderId))
          /\ Dispatch(folderId)
       \/ /\ Reject("ExportRowError")
          /\ UNCHANGED sheet
    /\ UNCHANGED otherVars
    /\ UNCHANGED <<tables, folderCall, sheetCall, folderId, archiveSheet,
                   activeCount, w, progress, log, files, permitted>>

\* ------------------------------------------------------------ export: workers

\* Faulty variant of IsLast: the first table of the list is taken for the last.
IsLastWhenFirst(t) == t - 1 = 0

\* index === tables.length - 1, with index = tableId - 1
IsLast(t) == t - 1 = Len(tables) - 1

\* Faulty variant of LimitAllows: the workers are started without a limit.
LimitAllowsAlways == TRUE

\* p-limit starts a queued function only while fewer than `concurrency` run.
LimitAllows == activeCount < Concurrency

\* The progress store's upsert of the result under its table id.
updateTableExportProgress(store, tableId, result) ==
    [store EXCEPT ![tableId] = result]

\* The argument of the success write (lines 139-149), latency left out.
SuccessResult(wt) ==
    [status |-> "success", error |-> None, driveFile |-> wt.driveFile,
     styles |-> wt.styles, isLarge |-> wt.isLarge, fileSize |-> wt.roundedFileSize,
     hasGeometryData |-> wt.hasGeometryData]

\* Faulty variant of ErrorResult: the error write keeps the status loading.
ErrorResultLoading(wt, error) ==
    [status |-> "loading", error |-> error, driveFile |-> wt.driveFile,
     styles |-> wt.styles, isLarge |-> wt.isLarge, fileSize |-> wt.roundedFileSize,
     hasGeometryData |-> wt.hasGeometryData]

\* Faulty variant of ErrorResult: the error write drops the telemetry captured so far.
ErrorResultWithoutTelemetry(wt, error) ==
    [status |-> "error", error |-> error, driveFile |-> wt.driveFile,
     styles |-> wt.styles, isLarge |-> FALSE, fileSize |-> 0,
     hasGeometryData |-> FALSE]

\* The argument of the error write (lines 159-170), latency left out.
ErrorResult(wt, error) ==
    [status |-> "error", error |-> error, driveFile |-> wt.driveFile,
     styles |-> wt.styles, isLarge |-> wt.isLarge, fileSize |-> wt.roundedFileSize,
     hasGeometryData |-> wt.hasGeometryData]

\* The worker stays suspended (or was already past the await that the call
\* belonged to): only the call's state changes.
Stay(t, wt) ==
    /\ w' = [w EXCEPT ![t] = wt]
    /\ UNCHANGED <<progress, log, activeCount>>

\* Faulty variant of Catch: the error is reported but no error result is written.
CatchWithoutWrite(t, wt, error) ==
    /\ w' = [w EXCEPT ![t] = [wt EXCEPT !.pc = "catching"]]
    /\ UNCHANGED <<progress, log, activeCount>>

\* catch (error): errors.report(error), then the error write is awaited.
Catch(t, wt, error) ==
    /\ w' = [w EXCEPT ![t] = [wt EXCEPT !.pc = "catching"]]
    /\ progress' = updateTableExportProgress(progress, t, ErrorResult(wt, error))
    /\ UNCHANGED <<log, activeCount>>

\* Both upload and styles fulfilled: the destructuring assignment, then the
\* three finalize calls are made at once and awaited together.
Finalize(t, wt) ==
    LET wf == [wt EXCEPT !.pc = "finalizing",
                         !.driveFile = wt.upload.result,
                         !.styles = wt.stylesCall.result,
                         !.logCall = RetryStart,
                         !.permCall = "running",
                         !.writeCall = "running"]
    IN  /\ w' = [w EXCEPT ![t] = wf]
        /\ progress' = updateTableExportProgress(progress, t, SuccessResult(wf))
        /\ UNCHANGED <<log, activeCount>>

\* if (isLast) { logExportFinish(exportId); }
ExportFinishEvents(t) ==
    IF IsLast(t) THEN <<LogEvent("export-finished", t, None, 0)>> ELSE <<>>

\* Faulty variant of FinishWorker: a worker that ends in error never frees its slot
\* of the limiter, so the tables queued behind it are never started.
FinishWorkerBlocksOnError(t, wt, status) ==
    /\ w' = [w EXCEPT ![t] = [wt EXCEPT !.pc = "done"]]
    /\ log' = Append(log, LogEvent("table-finished", t, status, wt.roundedFileSize))
                \o (IF t - 1 = Len(tables) - 1
                    THEN <<LogEvent("export-finished", t, None, 0)>>
                    ELSE <<>>)
    /\ activeCount' = IF status = "error" THEN activeCount ELSE activeCount - 1
    /\ UNCHANGED progress

\* logTableFinish, the export-finished event of the last table, and the
\* settling of saveTable's promise, on which p-limit frees the slot.
FinishWorker(t, wt, status) ==
    /\ w' = [w EXCEPT ![t] = [wt EXCEPT !.pc = "done"]]
    /\ log' = Append(log, LogEvent("table-finished", t, status, wt.roundedFileSize))
                \o ExportFinishEvents(t)
    /\ activeCount' = activeCount - 1
    /\ UNCHANGED progress

\* The three finalize calls have all fulfilled.
FinalizeFulfilled(wt) ==
    /\ wt.logCall.state = "resolved"
    /\ wt.permCall = "ok"
    /\ wt.writeCall = "ok"

\* A finalize call fulfilled: the success branch runs once all three have.
FinalizeStep(t, wt) ==
    IF wt.pc = "finalizing" /\ FinalizeFulfilled(wt)
    THEN FinishWorker(t, wt, "success")
    ELSE Stay(t, wt)

\* A call awaited in the try block rejected: the catch branch runs if the
\* worker is still in the await that call belongs to.
FailStep(t, wt, awaiting, error) ==
    IF wt.pc = awaiting THEN Catch(t, wt, error) ELSE Stay(t, wt)

\* p-limit runs the next queued worker: logTableStart, then getCsv is called.
StartWorker ==
    /\ LimitAllows
    /\ queue # <<>>
    /\ LET t == Head(queue)
       IN  /\ queue' = Tail(queue)
           /\ activeCount' = activeCount + 1
           /\ w' = [w EXCEPT ![t] = [@ EXCEPT !.pc = "fetching",
                                              !.folderId = folderId,
                                              !.archiveSheet = archiveSheet]]
           /\ log' = Append(log, LogEvent("table-started", t, None, 0))
    /\ UNCHANGED <<progress, sheet, files, permitted>>
    /\ UNCHANGED <<setupVars, otherVars>>

\* The locals set from the csv, and the upload and styles calls made at once.
AfterFetch(wt, bytes, geometry) ==
    [wt EXCEPT !.pc = "uploading",
               !.roundedFileSize = RoundedFileSize(bytes),
               !.isLarge = IsLarge(bytes),
               !.hasGeometryData = geometry,
               !.upload = [state |-> "running", result |-> NoFile],
               !.stylesCall = [state |-> "running", result |-> <<>>]]

\* getCsv returned.
FetchReturn(t) ==
    /\ w[t].pc = "fetching"
    /\ \/ Stay(t, AfterFetch(w[t], tables[t].bytes, tables[t].hasGeometryData))
       \/ Catch(t, w[t], "FetchError")
    /\ UNCHANGED <<queue, sheet, files, permitted>>
    /\ UNCHANGED <<setupVars, otherVars>>

\* Faulty variant of UploadReturn: the finalize actions start as soon as the
\* upload has succeeded, whether or not the styles have arrived.
UploadReturnFinalizesAlone(t) ==
    /\ w[t].upload.state = "running"
    /\ \/ LET file == [id |-> t, mimeType |-> tables[t].mimeType]
             wt == [w[t] EXCEPT !.upload = [state |-> "ok", result |-> file]]
         IN  /\ files' = files \cup {[table |-> t, folder |-> w[t].folderId]}
             /\ IF wt.pc = "uploading"
                THEN Finalize(t, wt)
                ELSE Stay(t, wt)
       \/ /\ FailStep(t, [w[t] EXCEPT !.upload.state = "failed"], "uploading",
                      "UploadError")
          /\ UNCHANGED files
    /\ UNCHANGED <<queue, sheet, permitted>>
    /\ UNCHANGED <<setupVars, otherVars>>

\* uploadToDrive returned.
UploadReturn(t) ==
    /\ w[t].upload.state = "running"
    /\ \/ LET file == [id |-> t, mimeType |-> tables[t].mimeType]
             wt == [w[t] EXCEPT !.upload = [state |-> "ok", result |-> file]]
         IN  /\ files' = files \cup {[table |-> t, folder |-> w[t].folderId]}
             /\ IF wt.pc = "uploading" /\ wt.stylesCall.state = "ok"
                THEN Finalize(t, wt)
                ELSE Stay(t, wt)
       \/ /\ FailStep(t, [w[t] EXCEPT !.upload.state = "failed"], "uploading",
                      "UploadError")
          /\ UNCHANGED files
    /\ UNCHANGED <<queue, sheet, permitted>>
    /\ UNCHANGED <<setupVars, otherVars>>

\* getFusiontableStyles returned.
StylesReturn(t) ==
    /\ w[t].stylesCall.state = "running"
    /\ \/ LET wt == [w[t] EXCEPT !.stylesCall =
                                    [state |-> "ok", result |-> tables[t].styles]]
         IN  IF wt.pc = "uploading" /\ wt.upload.state = "ok"
             THEN Finalize(t, wt)
             ELSE Stay(t, wt)
       \/ FailStep(t, [w[t] EXCEPT !.stylesCall.state = "failed"], "uploading",
                   "StylesError")
    /\ UNCHANGED <<queue, sheet, files, permitted>>
    /\ UNCHANGED <<setupVars, otherVars>>

\* The lines one attempt of logFileExportInIndexSheetWorker appends.
TableLines(t, wt) ==
    LET rows == Rows(t, wt.driveFile, wt.styles, wt.hasGeometryData, wt.isLarge)
    IN  [i \in 1..Len(rows) |-> TableLine(t, rows[i])]

\* One attempt of logFileExportInIndexSheetWorker returned (batchUpdate
\* answered, or threw, or answered with a status other than OK).
LogFileReturn(t) ==
    /\ w[t].logCall.state = "calling"
    /\ \/ /\ sheet' = sheet \o TableLines(t, w[t])
          /\ FinalizeStep(t, [w[t] EXCEPT !.logCall = RetryFulfil(@, "ok")])
       \/ /\ LET wt == [w[t] EXCEPT !.logCall = RetryReject(@, Retries, "LogFileError")]
             IN  IF wt.logCall.state = "rejected"
                 THEN FailStep(t, wt, "finalizing", "LogFileError")
                 ELSE Stay(t, wt)
          /\ UNCHANGED sheet
    /\ UNCHANGED <<queue, files, permitted>>
    /\ UNCHANGED <<setupVars, otherVars>>

\* The retry delay of logFileExportInIndexSheet elapsed.
LogFileTimeout(t) ==
    /\ w[t].logCall.state = "waiting"
    /\ Stay(t, [w[t] EXCEPT !.logCall = RetryTimeout(@)])
    /\ UNCHANGED <<queue, sheet, files, permitted>>
    /\ UNCHANGED <<setupVars, otherVars>>

\* addFilePermissions returned.
PermissionsReturn(t) ==
    /\ w[t].permCall = "running"
    /\ \/ /\ permitted' = permitted \cup {t}
          /\ FinalizeStep(t, [w[t] EXCEPT !.permCall = "ok"])
       \/ /\ FailStep(t, [w[t] EXCEPT !.permCall = "failed"], "finalizing",
                      "PermissionError")
          /\ UNCHANGED permitted
    /\ UNCHANGED <<queue, sheet, files>>
    /\ UNCHANGED <<setupVars, otherVars>>

\* The promise of the success write fulfilled.
SuccessWriteReturn(t) ==
    /\ w[t].writeCall = "running"
    /\ FinalizeStep(t, [w[t] EXCEPT !.writeCall = "ok"])
    /\ UNCHANGED <<queue, sheet, files, permitted>>
    /\ UNCHANGED <<setupVars, otherVars>>

\* The promise of the error write fulfilled: the rest of the catch branch.
ErrorWriteReturn(t) ==
    /\ w[t].pc = "catching"
    /\ FinishWorker(t, w[t], "error")
    /\ UNCHANGED <<queue, sheet, files, permitted>>
    /\ UNCHANGED <<setupVars, otherVars>>

Next ==
    \/ ExportStart
    \/ ArchiveFolderReturn
    \/ UploadFolderReturn
    \/ IndexSheetReturn
    \/ ExportRowReturn
    \/ StartWorker
    \/ \E t \in Tables :
        \/ FetchReturn(t)
        \/ UploadReturn(t)
        \/ StylesReturn(t)
        \/ LogFileReturn(t)
        \/ LogFileTimeout(t)
        \/ PermissionsReturn(t)
        \/ SuccessWriteReturn(t)
        \/ ErrorWriteReturn(t)

Spec == Init /\ [][Next]_vars

\* Every external call in flight eventually returns or fails, every timer
\* fires and p-limit runs what it queued.
FairSpec == Spec /\ WF_vars(Next)

\* ------------------------------------------------- one retry-wrapped call

\* The three calls wrapped in promiseRetry(retry => worker().catch(retry), ..).
RetryCalls == {"getFirstSheet", "createSheet", "logFileExportInIndexSheet"}

\* What an attempt of the worker can reject with.
AttemptErrors == {"ErrorA", "ErrorB"}

\* No export runs.
ExportOff ==
    /\ tables = <<>>
    /\ pc = "off"
    /\ folderCall = IdleCall
    /\ sheetCall = IdleCall
    /\ folderId = None
    /\ archiveSheet = None
    /\ outcome = [state |-> "pending", value |-> None]
    /\ queue = <<>>
    /\ activeCount = 0
    /\ w = <<>>
    /\ progress = <<>>
    /\ log = <<>>
    /\ sheet = <<>>
    /\ files = {}
    /\ permitted = {}

exportVars ==
    <<tables, pc, folderCall, sheetCall, folderId, archiveSheet, outcome, queue,
      activeCount, w, progress, log, sheet, files, permitted>>

\* One of the wrapped calls is made under a policy of `retries` retries: the
\* worker's first attempt is in flight.
InitRetry ==
    /\ ExportOff
    /\ ResolverOff
    /\ ClientOff
    /\ \E call \in RetryCalls, retries \in 0..MaxRetries :
         retry = [call |-> call, retries |-> retries, run |-> RetryStart,
                  history |-> <<>>]

\* An attempt of the worker fulfilled.
AttemptFulfilled ==
    /\ retry.run.state = "calling"
    /\ retry' = [retry EXCEPT !.run = RetryFulfil(@, "value"),
                              !.history = Append(@, "ok")]
    /\ UNCHANGED <<exportVars, drive, calls, clientVars>>

\* An attempt of the worker rejected.
AttemptRejected ==
    /\ retry.run.state = "calling"
    /\ \E e \in AttemptErrors :
         retry' = [retry EXCEPT !.run = RetryReject(@, retry.retries, e),
                                !.history = Append(@, e)]
    /\ UNCHANGED <<exportVars, drive, calls, clientVars>>

\* The inter-attempt delay elapsed.
DelayElapsed ==
    /\ retry.run.state = "waiting"
    /\ retry' = [retry EXCEPT !.run = RetryTimeout(@)]
    /\ UNCHANGED <<exportVars, drive, calls, clientVars>>

NextRetry ==
    \/ AttemptFulfilled
    \/ AttemptRejected
    \/ DelayElapsed

SpecRetry == InitRetry /\ [][NextRetry]_vars

\* ---------------------------------------------- the index-sheet resolver

\* What findFile answers when the folder holds no file of that name.
NoSpreadsheet == 0

\* firstSheet.properties.sheetId of a spreadsheet Drive made from the header row.
FirstSheetId == 1

\* What the archive folder holds under the index sheet's name before the first
\* call: nothing, a file of a deprecated version, or the index spreadsheet.
FolderContents == {<<>>, <<"legacy">>, <<"spreadsheet">>}

\* findFile(auth, DRIVE_ARCHIVE_INDEX_SHEET, archiveFolderId): the id of a file
\* of that name in the folder, whichever Drive lists first, or none.
findFile(folder) ==
    IF folder = <<>> THEN {NoSpreadsheet} ELSE DOMAIN folder

\* What sheets.spreadsheets.get can answer for a file of that kind.
SheetsGetAnswers(kind) ==
    IF kind = "legacy"
    THEN {"notFound", "failure"}
    ELSE {"sheets", "noSheetId", "failure"}

\* One attempt of getFirstSheetWorker, from the answer of sheets.spreadsheets.get
\* to how its promise settles. A first sheet without a sheetId throws inside the
\* try block an Error that has no response, so the catch block's read of
\* error.response.data throws a TypeError; a 404 becomes the rename-or-remove
\* error; every other API error is rethrown.
getFirstSheetWorker(answer) ==
    CASE answer = "sheets"    -> [ok |-> TRUE,  value |-> FirstSheetId]
      [] answer = "noSheetId" -> [ok |-> FALSE, value |-> "TypeError"]
      [] answer = "notFound"  -> [ok |-> FALSE, value |-> "LegacyError"]
      [] answer = "failure"   -> [ok |-> FALSE, value |-> "ApiError"]

\* A call of getArchiveIndexSheet not made yet. first is the run of
\* getFirstSheet, create the run of createSheet, after the calls that had
\* returned when this one was made.
IdleResolver ==
    [pc |-> "idle", spreadsheetId |-> NoSpreadsheet, first |-> IdleRetry,
     create |-> IdleRetry, result |-> None, after |-> {}]

ResolverCalls == 1..MaxCalls

InitSheet ==
    /\ ExportOff
    /\ retry = RetryOff
    /\ ClientOff
    /\ drive \in FolderContents
    /\ calls = [c \in ResolverCalls |-> IdleResolver]

\* The call's promise fulfils with the sheet handle.
ResolverReturn(call, sheetId) ==
    [call EXCEPT !.pc = "returned",
                 !.result = [spreadsheetId |-> call.spreadsheetId,
                             sheetId |-> sheetId]]

\* catch (error) { throw error; }
ResolverReject(call, error) ==
    [call EXCEPT !.pc = "rejected", !.result = error]

\* An attempt of createSheetWorker rejected: .catch(retry).
CreateAttemptRejected(call, error) ==
    LET run == RetryReject(call.create, Retries, error)
    IN  IF run.state = "rejected"
        THEN ResolverReject([call EXCEPT !.create = run], error)
        ELSE [call EXCEPT !.create = run, !.pc = "createSheet"]

\* getArchiveIndexSheet is called: findFile is in flight. The calls are
\* numbered in the order they are made.
ResolverStart(c) ==
    /\ calls[c].pc = "idle"
    /\ \A d \in ResolverCalls : d < c => calls[d].pc # "idle"
    /\ calls' = [calls EXCEPT ![c].pc = "findFile",
                              ![c].after =
                                  {d \in ResolverCalls : calls[d].pc = "returned"}]
    /\ UNCHANGED <<exportVars, retry, drive, clientVars>>

\* findFile returned: with no id createSheet is called, with an id
\* getFirstSheet; a rejection of findFile is rethrown.
FindFileReturn(c) ==
    /\ calls[c].pc = "findFile"
    /\ \/ \E spreadsheetId \in findFile(drive) :
            calls' = [calls EXCEPT ![c] =
                IF spreadsheetId = NoSpreadsheet
                THEN [@ EXCEPT !.pc = "filesCreate", !.create = RetryStart]
                ELSE [@ EXCEPT !.pc = "getFirstSheet", !.first = RetryStart,
                               !.spreadsheetId = spreadsheetId]]
       \/ calls' = [calls EXCEPT ![c] = ResolverReject(@, "FindFileError")]
    /\ UNCHANGED <<exportVars, retry, drive, clientVars>>

\* getFirstSheet settled for the file found: the rest of the default export.
FoundSheetSettled(call) ==
    IF call.first.state = "resolved"
    THEN ResolverReturn(call, call.first.result)
    ELSE ResolverReject(call, call.first.result)

\* getFirstSheet settled inside createSheetWorker: batchUpdate is called, or
\* the worker rejects.
CreatedSheetSettled(call) ==
    IF call.first.state = "resolved"
    THEN [call EXCEPT !.pc = "batchUpdate"]
    ELSE CreateAttemptRejected(call, call.first.result)

\* One attempt of getFirstSheetWorker settled.
GetFirstSheetReturn(c) ==
    /\ calls[c].pc \in {"getFirstSheet", "createdGetFirstSheet"}
    /\ calls[c].first.state = "calling"
    /\ \E answer \in SheetsGetAnswers(drive[calls[c].spreadsheetId]) :
         LET settled == getFirstSheetWorker(answer)
             run == IF settled.ok
                    THEN RetryFulfil(calls[c].first, settled.value)
                    ELSE RetryReject(calls[c].first, Retries, settled.value)
             call == [calls[c] EXCEPT !.first = run]
         IN  calls' = [calls EXCEPT ![c] =
                 IF run.state = "waiting" THEN call
                 ELSE IF call.pc = "getFirstSheet" THEN FoundSheetSettled(call)
                 ELSE CreatedSheetSettled(call)]
    /\ UNCHANGED <<exportVars, retry, drive, clientVars>>

\* The retry delay of getFirstSheet elapsed.
GetFirstSheetTimeout(c) ==
    /\ calls[c].first.state = "waiting"
    /\ calls' = [calls EXCEPT ![c].first = RetryTimeout(@)]
    /\ UNCHANGED <<exportVars, retry, drive, clientVars>>

\* drive.files.create returned in createSheetWorker: a file of the index
\* sheet's name is in the folder and getFirstSheet is called for it, or the
\* call threw or answered with a status other than OK and the worker rejects.
FilesCreateReturn(c) ==
    /\ calls[c].pc = "filesCreate"
    /\ \/ /\ drive' = Append(drive, "spreadsheet")
          /\ calls' = [calls EXCEPT ![c].pc = "createdGetFirstSheet",
                                    ![c].spreadsheetId = Len(drive) + 1,
                                    ![c].first = RetryStart]
       \/ /\ calls' = [calls EXCEPT ![c] = CreateAttemptRejected(@, "CreateError")]
          /\ UNCHANGED drive
    /\ UNCHANGED <<exportVars, retry, clientVars>>

\* sheets.spreadsheets.batchUpdate returned in createSheetWorker.
BatchUpdateReturn(c) ==
    /\ calls[c].pc = "batchUpdate"
    /\ \/ calls' = [calls EXCEPT ![c] = ResolverReturn(@, @.first.result)]
       \/ calls' = [calls EXCEPT ![c] = CreateAttemptRejected(@, "ApiError")]
    /\ UNCHANGED <<exportVars, retry, drive, clientVars>>

\* The retry delay of createSheet elapsed: createSheetWorker is called again.
CreateSheetTimeout(c) ==
    /\ calls[c].pc = "createSheet"
    /\ calls[c].create.state = "waiting"
    /\ calls' = [calls EXCEPT ![c].create = RetryTimeout(@),
                              ![c].pc = "filesCreate"]
    /\ UNCHANGED <<exportVars, retry, drive, clientVars>>

NextSheet ==
    \E c \in ResolverCalls :
        \/ ResolverStart(c)
        \/ FindFileReturn(c)
        \/ GetFirstSheetReturn(c)
        \/ GetFirstSheetTimeout(c)
        \/ FilesCreateReturn(c)
        \/ BatchUpdateReturn(c)
        \/ CreateSheetTimeout(c)

SpecSheet == InitSheet /\ [][NextSheet]_vars

\* ------------------------------------------------------ the polling client

\* The HTTP statuses a response to GET /export/<id>/updates is tried with: the
\* two ends of the range the client accepts and their neighbours.
HttpStatuses == {199, 200, 399, 400}

\* this.status >= 200 && this.status < 400
StatusAccepted(status) == status >= 200 /\ status < 400

\* The body of a response: the server's current result of every table of the
\* export, in the order of the table ids.
Updates(store) ==
    [t \in 1..Len(store) |-> [tableId |-> t, status |-> store[t]]]

\* The page before its script has run: listed are the tables with an entry in
\* the page's list, rendered the results written into list entries, in the
\* order they were written, failures counts the requests that ended in a transport
\* error or a status that is not accepted, last is how the latest request
\* ended: by onload or onerror, with an accepted status or not, with a table
\* loading in the parsed body or not.
InitPoll(listed) ==
    [pc |-> "loaded", listed |-> listed, renderedTableExports |-> <<>>,
     rendered |-> <<>>, failures |-> 0,
     last |-> [event |-> None, accepted |-> FALSE, loading |-> FALSE]]

\* renderedTableExports.indexOf(tableId) === -1
NotRendered(renderedTableExports, tableId) ==
    \A i \in DOMAIN renderedTableExports : renderedTableExports[i] # tableId

\* Faulty variant of updateTable: the table id is not pushed on
\* renderedTableExports.
updateTableForgets(cl, data) ==
    IF data.tableId \notin cl.listed
    THEN cl
    ELSE [cl EXCEPT !.rendered = Append(@, data)]

\* updateTable(data): without a list entry for the table nothing happens;
\* otherwise the table id is pushed on renderedTableExports and the result is
\* written into the entry.
updateTable(cl, data) ==
    IF data.tableId \notin cl.listed
    THEN cl
    ELSE [cl EXCEPT !.renderedTableExports = Append(@, data.tableId),
                    !.rendered = Append(@, data)]

\* tableExports.forEach(updateTable)
RECURSIVE forEachUpdateTable(_, _)
forEachUpdateTable(cl, tableExports) ==
    IF tableExports = <<>>
    THEN cl
    ELSE forEachUpdateTable(updateTable(cl, Head(tableExports)), Tail(tableExports))

\* Faulty variant of Recheck: polling goes on only while every table is loading.
RecheckWhileAllLoading(status, tableExports) ==
    IF StatusAccepted(status)
    THEN \A i \in DOMAIN tableExports : tableExports[i].status = "loading"
    ELSE TRUE

\* let recheck: some table of an accepted response is loading, or the status
\* is not accepted.
Recheck(status, tableExports) ==
    IF StatusAccepted(status)
    THEN \E i \in DOMAIN tableExports : tableExports[i].status = "loading"
    ELSE TRUE

\* request.onload: the tables that are not loading and not yet rendered are
\* handed to updateTable, then the next poll is scheduled or polling ends.
onload(cl, status, tableExports) ==
    LET fresh == SelectSeq(tableExports,
                     LAMBDA e : /\ e.status # "loading"
                                /\ NotRendered(cl.renderedTableExports, e.tableId))
        updated == IF StatusAccepted(status)
                   THEN forEachUpdateTable(cl, fresh)
                   ELSE cl
        recheck == Recheck(status, tableExports)
    IN  [updated EXCEPT
            !.pc = IF recheck THEN "waiting" ELSE "stopped",
            !.failures = IF StatusAccepted(status) THEN @ ELSE @ + 1,
            !.last = [event |-> "onload",
                      accepted |-> StatusAccepted(status),
                      loading |-> /\ StatusAccepted(status)
                                  /\ \E i \in DOMAIN tableExports :
                                         tableExports[i].status = "loading"]]

\* The export's page is loaded: every table of the export is loading on the
\* server, and some of them have an entry in the page's list.
InitClient ==
    /\ ExportOff
    /\ retry = RetryOff
    /\ ResolverOff
    /\ \E n \in 1..MaxTables :
         /\ feed = [t \in 1..n |-> "loading"]
         /\ \E listed \in SUBSET (1..n) : poll = InitPoll(listed)

\* The page's script runs: with a loading entry in the list the first request
\* is sent, and without one no request is ever made.
ClientStart ==
    /\ poll.pc = "loaded"
    /\ poll' = [poll EXCEPT !.pc = IF poll.listed # {} THEN "requesting"
                                   ELSE "never"]
    /\ UNCHANGED <<exportVars, retry, drive, calls, feed>>

\* A table's worker recorded its terminal result.
ServerSettles(t) ==
    /\ feed[t] = "loading"
    /\ \E status \in {"success", "error"} : feed' = [feed EXCEPT ![t] = status]
    /\ UNCHANGED <<exportVars, retry, drive, calls, poll>>

\* A table's worker replaced its success result by an error result, after a
\* finalize action failed.
ServerReplaces(t) ==
    /\ feed[t] = "success"
    /\ feed' = [feed EXCEPT ![t] = "error"]
    /\ UNCHANGED <<exportVars, retry, drive, calls, poll>>

\* The response arrived: request.onload.
ResponseLoads ==
    /\ poll.pc = "requesting"
    /\ \E status \in HttpStatuses :
         /\ StatusAccepted(status) \/ poll.failures < MaxFailures
         /\ poll' = onload(poll, status, Updates(feed))
    /\ UNCHANGED <<exportVars, retry, drive, calls, feed>>

\* The request failed in transport: request.onerror = requestUpdates sends the
\* next request at once.
ResponseErrors ==
    /\ poll.pc = "requesting"
    /\ poll.failures < MaxFailures
    /\ poll' = [poll EXCEPT !.failures = @ + 1,
                            !.last = [event |-> "onerror", accepted |-> FALSE,
                                      loading |-> FALSE]]
    /\ UNCHANGED <<exportVars, retry, drive, calls, feed>>

\* setTimeout(requestUpdates, 4000) fired: the next request is sent.
PollTimeout ==
    /\ poll.pc = "waiting"
    /\ poll' = [poll EXCEPT !.pc = "requesting"]
    /\ UNCHANGED <<exportVars, retry, drive, calls, feed>>

NextClient ==
    \/ ClientStart
    \/ ResponseLoads
    \/ ResponseErrors
    \/ PollTimeout
    \/ \E t \in DOMAIN feed :
        \/ ServerSettles(t)
        \/ ServerReplaces(t)

SpecClient == InitClient /\ [][NextClient]_vars

\* Every request is answered or fails, every timer fires.
FairSpecClient == SpecClient /\ WF_vars(NextClient)

\* ----------------------------------------------------------------- properties

Terminal(t) == progress[t].status \in {"success", "error"}

TableFinishedEvents(t) ==
    {i \in DOMAIN log : log[i].ev = "table-finished" /\ log[i].tableId = t}

TableStartedEvents ==
    {i \in DOMAIN log : log[i].ev = "table-started"}

ExportFinishedEvents ==
    {i \in DOMAIN log : log[i].ev = "export-finished"}

\* The worker of table t is started and its promise has not settled.
Running(t) == w[t].pc \in {"fetching", "uploading", "finalizing", "catching"}

\* The export function returned and every worker's promise has settled.
ExportOver ==
    /\ outcome.state = "resolved"
    /\ \A t \in Tables : w[t].pc = "done"

\* The steps of table t's worker that have failed.
FailedSteps(t) ==
    {e \in TableErrors :
        \/ e = "FetchError" /\ w[t].pc \in {"catching", "done"}
                            /\ w[t].upload.state = "idle"
        \/ e = "UploadError" /\ w[t].upload.state = "failed"
        \/ e = "StylesError" /\ w[t].stylesCall.state = "failed"
        \/ e = "LogFileError" /\ w[t].logCall.state = "rejected"
        \/ e = "PermissionError" /\ w[t].permCall = "failed"}

\* C1: once setup has succeeded and the workers are dispatched, every input
\* table eventually has a terminal result (success or error) in the progress
\* store, so the number of terminal results eventually equals the number of
\* input tables, whatever mix of successes and failures occurs.
C1_EveryTableEndsTerminal ==
    (outcome.state = "resolved")
        ~> (/\ \A t \in Tables : Terminal(t)
            /\ Cardinality({t \in Tables : Terminal(t)}) = Len(tables))

\* C1 witness: a two-table export over, the first table in error, the second
\* in success.
C1_Witness ==
    /\ Len(tables) = 2
    /\ ExportOver
    /\ progress[1].status = "error"
    /\ progress[2].status = "success"

\* C2 (as claimed): for every table list, once the export is over the
\* export-finished event has been emitted exactly once, by the worker of the
\* table that is last in input order.
C2_ExportFinishedExactlyOnce ==
    ExportOver =>
        /\ Cardinality(ExportFinishedEvents) = 1
        /\ \A i \in ExportFinishedEvents : log[i].tableId = Len(tables)

NoWorkerActivity ==
    /\ queue = <<>>
    /\ activeCount = 0
    /\ TableStartedEvents = {}
    /\ files = {}
    /\ permitted = {}
    /\ \A t \in Tables : w[t] = InitWorker /\ progress[t] = LoadingResult

\* C3: if resolving the archive folder, creating the upload folder, resolving
\* the index sheet or appending the export row fails, the export function
\* rejects with that error and no worker is ever dispatched: nothing is
\* queued or started, no table-started event, no fetch, no upload and no
\* progress-store write happens.
C3_SetupFailureIsFatal ==
    /\ (folderCall.state = "failed" \/ sheetCall.state = "failed")
          => outcome.state = "rejected"
    /\ outcome.state = "rejected" =>
          /\ pc = "rejected"
          /\ NoWorkerActivity
          /\ outcome.value \in SetupErrors
          /\ outcome.value = "ArchiveFolderError"
                => folderCall.state = "idle" /\ sheetCall.state = "idle"
          /\ outcome.value = "UploadFolderError" => folderCall.state = "failed"
          /\ outcome.value = "IndexSheetError" => sheetCall.state = "failed"
          /\ outcome.value = "ExportRowError"
                => folderCall.state = "ok" /\ sheetCall.state = "ok" /\ sheet = <<>>

\* C3 witness: the index sheet could not be resolved although the upload
\* folder was created, for a two-table export.
C3_Witness ==
    /\ Len(tables) = 2
    /\ outcome = [state |-> "rejected", value |-> "IndexSheetError"]
    /\ folderCall.state = "ok"

\* C4: a failure at any step of one table's worker does not abort or skip the
\* workers of the other tables: every other table's worker is still started
\* and reaches its own terminal result, and an error is recorded only under
\* the id of a table whose own step failed.
C4_FailureIsIsolated ==
    /\ [](\A t \in Tables :
            progress[t].status = "error" => progress[t].error \in FailedSteps(t))
    /\ (\E t \in Tables : FailedSteps(t) # {})
          ~> (\A u \in Tables : w[u].pc = "done" /\ Terminal(u))

\* C4 witness: the first table's fetch failed and the second table's worker
\* ran to success.
C4_Witness ==
    /\ Len(tables) = 2
    /\ FailedSteps(1) = {"FetchError"}
    /\ w[2].pc = "done"
    /\ progress[2].status = "success"

\* C5: the export function returns the destination folder id when the workers
\* are dispatched, without waiting for them: at the return of a non-empty
\* table list no worker has recorded a terminal result, and the id returned is
\* the folder id every worker uploads to.
C5_ReturnsAtDispatch ==
    /\ [][(outcome.state = "pending" /\ outcome'.state = "resolved") =>
            /\ outcome'.value = folderId
            /\ outcome'.value \in FolderIds
            /\ \A t \in Tables : ~Terminal(t)' /\ w'[t].pc = "pending"]_vars
    /\ [](/\ \A t \in Tables : w[t].pc # "pending" => w[t].folderId = outcome.value
          /\ \A f \in files : f.folder = outcome.value)

\* C5 witness: the export of two tables has returned folderA and a worker has
\* uploaded its file there while no table is terminal yet.
C5_Witness ==
    /\ Len(tables) = 2
    /\ outcome = [state |-> "resolved", value |-> "folderA"]
    /\ [table |-> 1, folder |-> "folderA"] \in files
    /\ \A t \in Tables : ~Terminal(t)

\* C6: at most one fetch of a table from the legacy endpoint (getCsv) is in
\* flight at any time.
C6_OneFetchInFlight ==
    Cardinality({t \in Tables : w[t].pc = "fetching"}) <= 1

\* C6 witness: the second table's fetch is in flight while the upload of the
\* first table, whose worker has failed, is still in flight.
C6_Witness ==
    /\ Len(tables) = 2
    /\ w[2].pc = "fetching"
    /\ w[1].upload.state = "running"

\* C7 (as claimed): the limit applies only to the fetch, so while a table's
\* worker is in its upload or finalize step the worker of the next queued
\* table is free to start.
C7_UploadAndFinalizeFreeToOverlap ==
    \A t \in Tables :
        (w[t].pc \in {"uploading", "finalizing"} /\ queue # <<>>)
            => ENABLED StartWorker

\* C7 (amended): the limit of one applies to the whole worker: while a table's
\* worker is in its fetch, upload or finalize step or in its catch branch, no
\* other table's worker is running; the next one starts only once that
\* worker's promise has settled.
C7_WorkersDoNotOverlap ==
    \A t, u \in Tables :
        (t # u /\ Running(t)) => (w[u].pc \in {"pending", "done"} /\ ~LimitAllows)

\* C7 witness: the second table's worker is in its upload or finalize step
\* while calls that the first table's failed worker left behind are in flight.
C7_Witness ==
    /\ Len(tables) = 2
    /\ w[2].pc \in {"uploading", "finalizing"}
    /\ w[1].pc = "done"
    /\ w[1].logCall.state = "calling"

\* C8: a result in the progress store is only ever replaced, never removed,
\* and no write of a worker carries the status loading, so a status never goes
\* from success or error back to loading.
C8_NeverBackToLoading ==
    [][/\ DOMAIN progress' = DOMAIN progress
       /\ \A t \in Tables :
            /\ progress'[t] # progress[t] => progress'[t].status # "loading"
            /\ Terminal(t) => Terminal(t)']_vars

\* C8 witness: a success result has been replaced by an error result.
C8_Witness ==
    \E t \in Tables :
        /\ progress[t].status = "error"
        /\ w[t].writeCall = "ok"

\* What the csv of table t sets the worker's telemetry to once it is fetched.
Captured(t) ==
    IF w[t].upload.state = "idle"
    THEN [isLarge |-> FALSE, fileSize |-> 0, hasGeometryData |-> FALSE]
    ELSE [isLarge |-> IsLarge(tables[t].bytes),
          fileSize |-> RoundedFileSize(tables[t].bytes),
          hasGeometryData |-> tables[t].hasGeometryData]

IsFailure(h, k) == k \in DOMAIN h /\ h[k] \in AttemptErrors

\* C10: a retry-wrapped call whose worker fails twice and then succeeds
\* resolves with the success value after exactly 2 delays when the policy
\* allows at least 3 attempts; under a policy of 2 attempts the second failure
\* is what the call rejects with, and no third attempt is made.
C10_RetryThirdAttempt ==
    LET h == retry.history
        r == retry.run
        attemptsAllowed == retry.retries + 1
    IN  /\ (Len(h) = 3 /\ IsFailure(h, 1) /\ IsFailure(h, 2) /\ h[3] = "ok") =>
              /\ attemptsAllowed >= 3
              /\ r.state = "resolved"
              /\ r.result = "value"
              /\ r.delays = 2
              /\ r.attempts = 3
        /\ (Len(h) = 2 /\ IsFailure(h, 1) /\ IsFailure(h, 2)) =>
              IF attemptsAllowed >= 3
              THEN r.state \in {"waiting", "calling"} /\ r.result = None
              ELSE /\ attemptsAllowed = 2
                   /\ r.state = "rejected"
                   /\ r.result = h[2]
                   /\ r.attempts = 2
                   /\ r.delays = 1
        /\ attemptsAllowed = 2 => Len(h) <= 2 /\ r.attempts <= 2

\* C10 witness: createSheet under a policy of 3 attempts failed twice with
\* different errors and resolved on the third attempt.
C10_Witness ==
    /\ retry.call = "createSheet"
    /\ retry.retries = 2
    /\ retry.history = <<"ErrorA", "ErrorB", "ok">>
    /\ retry.run.state = "resolved"

\* The calls of getArchiveIndexSheet that were rejected with that error.
RejectedWith(error) ==
    {c \in ResolverCalls : calls[c].pc = "rejected" /\ calls[c].result = error}

\* C11: when a file of the index sheet's name exists and the spreadsheet lookup
\* answers 404, the resolver fails with the rename-or-remove error after a
\* single attempt of the lookup: the condition is not retried.
C11_LegacyConflictNotRetried ==
    \A c \in RejectedWith("LegacyError") :
        /\ calls[c].first.attempts = 1
        /\ calls[c].first.delays = 0

\* Every pair of calls made in sequence that both returned a sheet handle: the
\* second was made after the first had returned.
InSequence ==
    {pair \in ResolverCalls \X ResolverCalls :
        /\ calls[pair[1]].pc = "returned"
        /\ calls[pair[2]].pc = "returned"
        /\ pair[1] \in calls[pair[2]].after}

\* C12: two calls of the index-sheet resolver made in sequence for the same
\* archive folder return the same spreadsheetId, and the folder holds no second
\* index spreadsheet after them.
C12_ResolverIdempotent ==
    \A pair \in InSequence :
        /\ calls[pair[2]].result.spreadsheetId = calls[pair[1]].result.spreadsheetId
        /\ Len(drive) = 1

\* The tables whose index-sheet append has succeeded.
Logged == {t \in Tables : w[t].logCall.state = "resolved"}

\* The rows of table t in the index sheet, in the order they were appended.
RowsOf(t) ==
    LET lines == SelectSeq(sheet, LAMBDA l : l.kind = "table" /\ l.table = t)
    IN  [i \in 1..Len(lines) |-> lines[i].row]

\* The source, destination and type cells of the row are filled in.
FirstRowCells(row) == row.source # <<>> /\ row.dest # <<>> /\ row.type # ""

\* The source, destination and type cells of the row are blank.
BlankRowCells(row) == row.source = <<>> /\ row.dest = <<>> /\ row.type = ""

\* C13 as stated: a table without geometry data gets exactly one row,
\* whatever the number of its styles, with the source, destination and type
\* cells filled in and an empty visualization cell.
C13_NoGeometryEmptyCell ==
    \A t \in Logged :
        ~tables[t].hasGeometryData =>
            /\ Len(RowsOf(t)) = 1
            /\ FirstRowCells(RowsOf(t)[1])
            /\ RowsOf(t)[1].vis.link = NoLink
            /\ RowsOf(t)[1].vis.text = ""

\* C13: a table without geometry data gets exactly one row, whatever the
\* number of its styles; the row's source, destination and type cells are
\* filled in and its visualization cell carries no link and no label but the
\* text that the table cannot be visualized.
C13_NoGeometryOneRow ==
    \A t \in Logged :
        ~tables[t].hasGeometryData =>
            /\ Len(RowsOf(t)) = 1
            /\ FirstRowCells(RowsOf(t)[1])
            /\ RowsOf(t)[1].vis.kind # "hyperlink"
            /\ RowsOf(t)[1].vis.link = NoLink
            /\ RowsOf(t)[1].vis.label = <<>>
            /\ RowsOf(t)[1].vis.text = "Cannot visualize - no geometry found."

\* C13 witness: a table with two styles and no geometry data has its single
\* row in the index sheet.
C13_Witness ==
    \E t \in Logged :
        /\ ~tables[t].hasGeometryData
        /\ Len(tables[t].styles) = 2
        /\ w[t].styles = tables[t].styles
        /\ Len(RowsOf(t)) = 1

\* The style parameter of a link qualified by that style.
QualifiedBy(style) == {[hash |-> style]}

\* C14: a table with geometry data and N > 1 styles gets exactly N rows, in
\* the order of its styles; row i carries a link to the exported file that is
\* qualified by style i, and the label number i; only the first row has the
\* source, destination and type cells filled in, rows 2..N leave them blank.
C14_OneRowPerStyle ==
    \A t \in Logged :
        LET styles == tables[t].styles
            rows == RowsOf(t)
        IN  (tables[t].hasGeometryData /\ Len(styles) > 1) =>
                /\ Len(rows) = Len(styles)
                /\ \A i \in 1..Len(rows) :
                     /\ rows[i].vis.kind = "hyperlink"
                     /\ rows[i].vis.link.file = w[t].driveFile.id
                     /\ rows[i].vis.link.style = QualifiedBy(styles[i])
                     /\ rows[i].vis.label = <<i>>
                     /\ IF i = 1 THEN FirstRowCells(rows[i])
                                 ELSE BlankRowCells(rows[i])

\* C14 witness: a table with geometry data and two styles has its two rows in
\* the index sheet, the second with blank source, destination and type cells.
C14_Witness ==
    \E t \in Logged :
        /\ tables[t].hasGeometryData
        /\ Len(tables[t].styles) = 2
        /\ Len(RowsOf(t)) = 2
        /\ BlankRowCells(RowsOf(t)[2])
        /\ RowsOf(t)[2].vis.label = <<2>>

\* C15 as stated: a table with geometry data and one style or none gets a
\* single row with one link, and the link has no style parameter in both cases.
C15_SingleLinkUnqualified ==
    \A t \in Logged :
        (tables[t].hasGeometryData /\ Len(tables[t].styles) <= 1) =>
            /\ Len(RowsOf(t)) = 1
            /\ RowsOf(t)[1].vis.kind = "hyperlink"
            /\ RowsOf(t)[1].vis.link.style = {}

\* C15: a table with geometry data and one style or none gets a single row
\* with one link and no label number, with the source, destination and type
\* cells filled in; with one style the link is qualified by that style, with
\* no style it has no style parameter.
C15_SingleRowSingleLink ==
    \A t \in Logged :
        LET styles == tables[t].styles
            rows == RowsOf(t)
        IN  (tables[t].hasGeometryData /\ Len(styles) <= 1) =>
                /\ Len(rows) = 1
                /\ FirstRowCells(rows[1])
                /\ rows[1].vis.kind = "hyperlink"
                /\ rows[1].vis.link.file = w[t].driveFile.id
                /\ rows[1].vis.label = <<>>
                /\ rows[1].vis.link.style =
                       IF Len(styles) = 1 THEN QualifiedBy(styles[1]) ELSE {}

\* C15 witness: a table with geometry data and exactly one style has its
\* single row in the index sheet, with a link qualified by the style.
C15_Witness ==
    \E t \in Logged :
        /\ tables[t].hasGeometryData
        /\ Len(tables[t].styles) = 1
        /\ Len(RowsOf(t)) = 1
        /\ RowsOf(t)[1].vis.link.style # {}

\* The tables whose csv was fetched: saveTable's isLarge is assigned.
Fetched == {t \in Tables : w[t].upload.state # "idle"}

\* C16: a table is flagged isLarge exactly when its csv is strictly larger
\* than 20 MB (20 * 1024 * 1024 bytes); the flag in the result recorded for the
\* table and the large parameter of every visualization link appended for it
\* are that same value.
C16_LargeAbove20MB ==
    \A t \in Fetched :
        LET large == tables[t].bytes > 20 * 1024 * 1024
        IN  /\ w[t].isLarge = large
            /\ Terminal(t) => progress[t].isLarge = large
            /\ \A i \in DOMAIN RowsOf(t) :
                 RowsOf(t)[i].vis.kind = "hyperlink" =>
                     RowsOf(t)[i].vis.link.large = large

\* C16 witness: of two exported tables the first, of 25 MB, has a success
\* result flagged large and rows whose links carry the large parameter; the
\* second, of exactly 20 MB, has a success result not flagged large.
C16_Witness ==
    /\ Len(tables) = 2
    /\ tables[1].bytes = 25 * MB /\ tables[2].bytes = 20 * MB
    /\ progress[1].status = "success" /\ progress[1].isLarge
    /\ progress[2].status = "success" /\ ~progress[2].isLarge
    /\ Len(RowsOf(1)) = 2
    /\ \A i \in 1..2 : RowsOf(1)[i].vis.link.large

\* The positions of the export's row in the index sheet.
ExportRows == {i \in DOMAIN sheet : sheet[i].kind = "export"}

\* A worker of the export has started.
SomeWorkerStarted == \E t \in Tables : w[t].pc # "pending"

\* C17: setup is ordered. Neither the upload folder is created nor the index
\* sheet resolved before the archive folder is resolved; the two calls are made
\* together; the export row is appended at most once, only after both calls
\* succeeded, it is in the sheet when the export function returns and before
\* any worker starts, and it precedes every table row.
C17_SetupOrdered ==
    /\ (pc \in {"start", "getArchiveFolder"} \/ outcome.value = "ArchiveFolderError")
           => folderCall.state = "idle" /\ sheetCall.state = "idle"
    /\ folderCall.state = "idle" <=> sheetCall.state = "idle"
    /\ pc = "insertExportRow" =>
           folderCall.state = "ok" /\ sheetCall.state = "ok" /\ sheet = <<>>
    /\ Cardinality(ExportRows) <= 1
    /\ ExportRows # {} =>
           /\ ExportRows = {1}
           /\ folderCall.state = "ok" /\ sheetCall.state = "ok"
           /\ sheet[1].folder = folderCall.result
    /\ (pc = "returned" \/ queue # <<>> \/ SomeWorkerStarted) => ExportRows = {1}
    /\ sheet # <<>> => sheet[1].kind = "export"

\* C17 witness: the export row is the first line of the index sheet and the
\* rows of a table follow it.
C17_Witness ==
    /\ Len(sheet) >= 3
    /\ sheet[1].kind = "export"
    /\ sheet[1].folder = "folderA"
    /\ sheet[2].kind = "table"
    /\ sheet[3].kind = "table"

\* One of the finalize actions of table t's worker has started.
FinalizeStarted(t) ==
    \/ w[t].logCall.state # "idle"
    \/ w[t].permCall # "idle"
    \/ w[t].writeCall # "idle"

\* The upload or the style fetch of table t's worker has failed.
UploadStepFailed(t) ==
    w[t].upload.state = "failed" \/ w[t].stylesCall.state = "failed"

\* C18: the steps of a table's worker are sequential. The upload and the style
\* fetch start, together, only after the fetch succeeded; no finalize action
\* starts unless both succeeded; when either fails the table ends in error,
\* with no row in the index sheet, no permission replication and no success
\* result.
C18_StepsSequential ==
    \A t \in Tables :
        /\ w[t].pc \in {"pending", "fetching"} =>
               w[t].upload.state = "idle" /\ w[t].stylesCall.state = "idle"
        /\ w[t].upload.state = "idle" <=> w[t].stylesCall.state = "idle"
        /\ FinalizeStarted(t) =>
               w[t].upload.state = "ok" /\ w[t].stylesCall.state = "ok"
        /\ UploadStepFailed(t) =>
               /\ ~FinalizeStarted(t)
               /\ w[t].pc \in {"catching", "done"}
               /\ progress[t].status = "error"
               /\ RowsOf(t) = <<>>
               /\ t \notin permitted

\* C18 witness: the upload of a table succeeded, its style fetch failed, and
\* the worker has finished in error without a finalize action.
C18_Witness ==
    \E t \in Tables :
        /\ w[t].upload.state = "ok"
        /\ w[t].stylesCall.state = "failed"
        /\ w[t].pc = "done"
        /\ progress[t].status = "error"
        /\ w[t].logCall.state = "idle"

\* C19: a worker records at most one terminal result: once it has written the
\* success result of its table, the table's result stays the success result,
\* however the index-sheet append and the permission replication end.
C19_SuccessNeverReplaced ==
    \A t \in Tables : w[t].writeCall # "idle" => progress[t].status = "success"

\* The table ids of the table-started events, in the order of the log.
StartOrder ==
    LET started == SelectSeq(log, LAMBDA e : e.ev = "table-started")
    IN  [i \in 1..Len(started) |-> started[i].tableId]

\* C20: when export-finished is in the log, every table has a terminal result
\* and every worker has finished; the workers start in the order of the input
\* list, each only after the worker of the table before it has finished.
C20_FinishedMeansAllDone ==
    /\ ExportFinishedEvents # {} =>
           \A t \in Tables : Terminal(t) /\ w[t].pc = "done" /\ ~Running(t)
    /\ StartOrder = [i \in 1..Len(StartOrder) |-> i]
    /\ \A t \in Tables :
           /\ w[t].pc # "pending" <=> t <= Len(StartOrder)
           /\ (t > 1 /\ w[t].pc # "pending") => w[t - 1].pc = "done"

\* C20 witness: export-finished was emitted by the second of two workers, after
\* the first table ended in error and the second in success.
C20_Witness ==
    /\ Len(tables) = 2
    /\ ExportFinishedEvents # {}
    /\ StartOrder = <<1, 2>>
    /\ progress[1].status = "error"
    /\ progress[2].status = "success"

\* C21: at most one index spreadsheet is ever created in an archive folder,
\* across the retries inside one call of the resolver and across the calls made
\* by exports that start at the same time.
C21_AtMostOneIndexSheet ==
    Len(drive) <= 1

\* The table ids the client has rendered.
RenderedIds == {poll.rendered[i].tableId : i \in DOMAIN poll.rendered}

\* After the latest response the client goes on polling exactly when the
\* status was not accepted or a table of the response was loading, and after a
\* transport error the next request is in flight.
PollsAgainExactlyWhen ==
    poll.last.event # None =>
        IF poll.last.event = "onerror"
        THEN poll.pc = "requesting"
        ELSE IF ~poll.last.accepted \/ poll.last.loading
        THEN poll.pc \in {"waiting", "requesting"}
        ELSE poll.pc = "stopped"

C23_RenderedAtMostOnce ==
    /\ \A i, j \in DOMAIN poll.rendered :
           poll.rendered[i].tableId = poll.rendered[j].tableId => i = j
    /\ \A i \in DOMAIN poll.rendered :
           /\ poll.rendered[i].status # "loading"
           /\ poll.rendered[i].tableId \in poll.listed
    /\ poll.renderedTableExports =
           [i \in DOMAIN poll.rendered |-> poll.rendered[i].tableId]

\* C23 witness: table 1 was rendered as a success while table 2 was loading;
\* the server then replaced its result by an error, and the later response
\* that ended the polling rendered table 2 and left table 1 as it was.
C23_Witness ==
    /\ poll.pc = "stopped"
    /\ Len(feed) = 2
    /\ feed[1] = "error"
    /\ Len(poll.rendered) = 2
    /\ poll.rendered[1] = [tableId |-> 1, status |-> "success"]
    /\ poll.rendered[2].tableId = 2

====
